---------------------------- MODULE Spec2Model ----------------------------
(***************************************************************************)
(* The waiting-room coordinator of gemini-waiting: the WaitingRoomEntry    *)
(* store, the WebSocket consumer (waitingroom/consumers.py) and the two    *)
(* Pexip HTTP endpoints (pexip_events/views.py, pexip_policy/views.py).    *)
(*                                                                         *)
(* Scheduling.  Every consumer handles its frames, its group messages and  *)
(* its disconnect one after the other, so a session has one program        *)
(* counter.  Every database helper of the consumers runs through           *)
(* sync_to_async in the one thread-sensitive worker thread, so among the   *)
(* consumers one helper call is one atomic step; the awaits between the    *)
(* helper calls of add_patient_to_waiting_room are the points at which     *)
(* other sessions interleave.  The helper of an HTTP request runs in the   *)
(* thread of that request, in parallel with the consumers' thread: between *)
(* the get() and the save() of the one, the other may read and write.      *)
(***************************************************************************)
EXTENDS Integers, Sequences, FiniteSets, TLC

(***************************************************************************)
(* Domains                                                                 *)
(***************************************************************************)
\* Doctor rows (created in the admin, never deleted by this code).
Doctors == {1, 2}
\* doctor_id values a route or a message may carry: 3 names no Doctor row.
RouteIds == {1, 2, 3}
Sessions == {"s1", "s2"}
\* Well-formed uuids clients send, and the uuids uuid4() mints.
ClientUuids == {"u1"}
MintPool == {"m1"}
AllUuids == ClientUuids \cup MintPool
\* A string uuid.UUID() rejects, and the absent (None) uuid.
BadUuid == "not-a-uuid"
NoUuid == "None"
Names == {"Alice"}
NoName == "-"
\* Entries ever created, and refresh messages a channel holds.
MaxEntries == 2
MaxInbox == 1
\* random.randint(100000, 999999): the low end of the range, as many values as
\* the stored rows and the commands in flight can hold at once, and one more.
PinMin == 100000
Pins == PinMin .. (PinMin + 2 * MaxEntries + 2 * Cardinality(Sessions))
\* host_pin and guest_pin are null=True: no PIN, a value randint never returns.
NoPin == PinMin - 1

ActiveStatuses == {"Waiting", "In Progress", "In Call"}
HistoryStatuses == {"Done", "Cancelled", "Left Call"}
STATUS_CHOICES == ActiveStatuses \cup HistoryStatuses
\* update_status writes whatever string the frame carries.
ClientStatuses == STATUS_CHOICES

VARIABLES
    patients,   \* Patient rows: uuid -> name (NoName: no such row)
    entries,    \* WaitingRoomEntry rows: id -> row
    nextId,     \* the next primary key, which is also the arrival clock
    sess,       \* per connection: the consumer's fields and its position
    inbox,      \* per connection: waiting_list_update messages not yet handled
    raced,      \* history: two add_patient commands of one pair overlapped
    resp,       \* the HTTP response of the step just taken, if it was a request
    sent,       \* the frame, other than a waiting list, the step just sent to a client
    signals,    \* per connection: chat and drawing messages not yet handled
    held        \* per thread: the row a helper has read and not yet saved

vars == <<patients, entries, nextId, sess, inbox, raced, resp, sent, signals, held>>

NoResp == [endpoint |-> "none", code |-> 0, status |-> "-", action |-> "-",
           pin |-> NoPin, guest_pin |-> NoPin]

\* self.send(text_data=json.dumps({'type': 'error', ...})) of connection s.
NoBody == [sender |-> "-", message |-> "-", data |-> "-", patient_uuid |-> "-"]
NoFrame == [to |-> "-", type |-> "-", body |-> NoBody]
ErrorFrame(s) == [to |-> s, type |-> "error", body |-> NoBody]
\* The close frame of the server to the client of a consumer that raised.
CloseFrame(s) == [to |-> s, type |-> "close", body |-> NoBody]

Closed == [open |-> FALSE, doctor_id |-> 0, patient_uuid |-> NoUuid, pc |-> "idle",
           patient |-> NoUuid,
           host_pin |-> NoPin, guest_pin |-> NoPin]

Min(a, b) == IF a < b THEN a ELSE b

\* The threads that run helpers with a get() and a save(): that of the event
\* sink's request, and the consumers' thread on behalf of a connection.
Threads == Sessions \cup {"hook"}
\* A model instance in memory between get() and save(): the row's id, its
\* fields with the assignment made, and what fails afterwards.
NoRow == [doctor |-> 0, patient |-> NoUuid, status |-> "-", arrived_at |-> 0,
          host_pin |-> NoPin, guest_pin |-> NoPin, added_by_doctor |-> FALSE,
          whiteboard_active |-> FALSE,
          whiteboard_data |-> "[]"]
NoHold == [id |-> 0, row |-> NoRow, failure |-> "none"]

(***************************************************************************)
(* The store                                                               *)
(***************************************************************************)
Ids == DOMAIN entries

\* QuerySet.get(): the one matching row, DoesNotExist or MultipleObjectsReturned.
QuerySetGet(S) ==
    IF S = {} THEN [kind |-> "DoesNotExist", id |-> 0]
    ELSE IF Cardinality(S) > 1 THEN [kind |-> "MultipleObjectsReturned", id |-> 0]
    ELSE [kind |-> "one", id |-> CHOOSE i \in S : TRUE]

SetStatus(i, st) == [entries EXCEPT ![i].status = st]

\* order_by('arrived_at') of a set of rows, as the sequence of their ids.
RECURSIVE OrderByArrivedAt(_)
OrderByArrivedAt(S) ==
    IF S = {} THEN <<>>
    ELSE LET first == CHOOSE i \in S :
                         \A j \in S : entries[i].arrived_at <= entries[j].arrived_at
         IN <<first>> \o OrderByArrivedAt(S \ {first})

\* A slip get_waiting_list_data could make: 'Left Call' missing from the
\* exclude() of terminal statuses.
get_waiting_list_data_keeps_left_call(d) ==
    IF d \notin Doctors THEN <<>>
    ELSE OrderByArrivedAt({i \in Ids : /\ entries[i].doctor = d
                                       /\ entries[i].status \notin {"Done", "Cancelled"}})

\* get_waiting_list_data of a consumer whose route names doctor d.
get_waiting_list_data(d) ==
    IF d \notin Doctors THEN <<>>
    ELSE OrderByArrivedAt({i \in Ids : /\ entries[i].doctor = d
                                       /\ entries[i].status \notin HistoryStatuses})

\* The data of the waiting_list frame: per listed entry the fields
\* get_waiting_list_data copies from the row and from its Patient.
WaitingListData(d) ==
    LET listed == get_waiting_list_data(d)
    IN [k \in 1..Len(listed) |->
           [id |-> listed[k],
            patient_name |-> patients[entries[listed[k]].patient],
            patient_uuid |-> entries[listed[k]].patient,
            status |-> entries[listed[k]].status,
            arrived_at |-> entries[listed[k]].arrived_at,
            doctor_id |-> entries[listed[k]].doctor,
            host_pin |-> entries[listed[k]].host_pin,
            guest_pin |-> entries[listed[k]].guest_pin,
            added_by_doctor |-> entries[listed[k]].added_by_doctor,
            whiteboard_active |-> entries[listed[k]].whiteboard_active]]

(***************************************************************************)
(* The channel layer                                                       *)
(***************************************************************************)
\* The channels of group waiting_room_<d>: group_add at connect, group_discard
\* at disconnect.
Group(ss, d) == {s \in Sessions : ss[s].open /\ ss[s].doctor_id = d}

\* group_send of waiting_list_update to waiting_room_<d>; a full channel drops.
group_send(ib, ss, d) ==
    [s \in Sessions |-> IF s \in Group(ss, d) THEN Min(ib[s] + 1, MaxInbox) ELSE ib[s]]

(***************************************************************************)
(* WaitingRoomConsumer                                                     *)
(***************************************************************************)
Idle(s) == sess[s].open /\ sess[s].pc = "idle"

Connect(s, d) ==
    /\ sess[s] = Closed
    /\ sess' = [sess EXCEPT ![s] = [Closed EXCEPT !.open = TRUE, !.doctor_id = d]]
    /\ resp' = NoResp
    /\ sent' = NoFrame
    /\ UNCHANGED <<patients, entries, nextId, inbox, raced>>
    /\ UNCHANGED <<signals, held>>

\* disconnect: group_discard, then update_patient_status_on_disconnect when the
\* consumer carries a patient_uuid.  The consumer is gone afterwards, with
\* whatever its channel still held.
\* A slip disconnect could make: the status update, and its refresh, before
\* the group_discard.
update_patient_status_on_disconnect_first(s) ==
    LET u == sess[s].patient_uuid
        d == sess[s].doctor_id
        got == QuerySetGet({i \in Ids : /\ entries[i].patient = u
                                        /\ entries[i].doctor = d
                                        /\ entries[i].status \in ActiveStatuses})
    IN /\ sess' = [sess EXCEPT ![s] = Closed]
       /\ IF u # NoUuid /\ u # BadUuid /\ got.kind = "one"
          THEN /\ entries' = SetStatus(got.id, "Left Call")
               /\ inbox' = group_send(inbox, sess, d)
          ELSE /\ entries' = entries
               /\ inbox' = [inbox EXCEPT ![s] = 0]

update_patient_status_on_disconnect(s) ==
    LET u == sess[s].patient_uuid
        d == sess[s].doctor_id
        after == [sess EXCEPT ![s] = Closed]
        got == QuerySetGet({i \in Ids : /\ entries[i].patient = u
                                        /\ entries[i].doctor = d
                                        /\ entries[i].status \in ActiveStatuses})
        cleared == [inbox EXCEPT ![s] = 0]
    IN /\ sess' = after
       /\ IF u # NoUuid /\ u # BadUuid /\ got.kind = "one"
          THEN /\ entries' = SetStatus(got.id, "Left Call")
               /\ inbox' = group_send(cleared, after, d)
          ELSE /\ entries' = entries
               /\ inbox' = cleared

Disconnect(s) ==
    /\ Idle(s)
    /\ update_patient_status_on_disconnect(s)
    /\ resp' = NoResp
    /\ sent' = NoFrame
    /\ UNCHANGED <<patients, nextId, raced>>
    /\ signals' = [signals EXCEPT ![s] = <<>>]
    /\ UNCHANGED held

\* disconnect of a consumer that carries a patient_uuid while the store is
\* down: get() or save() raises inside update_patient_status_on_disconnect,
\* 'except Exception' logs it, and the consumer is gone with no entry changed
\* and nothing sent.
DisconnectFailing(s) ==
    /\ Idle(s)
    /\ sess[s].patient_uuid # NoUuid
    /\ sess' = [sess EXCEPT ![s] = Closed]
    /\ inbox' = [inbox EXCEPT ![s] = 0]
    /\ signals' = [signals EXCEPT ![s] = <<>>]
    /\ resp' = NoResp
    /\ sent' = NoFrame
    /\ UNCHANGED <<patients, entries, nextId, raced, held>>

\* receive of a frame that is no JSON: json.loads raises out of receive, no
\* handler catches it and the consumer ends there, without an error frame to
\* the client and without running disconnect; the server closes the socket.
ReceiveUnparseable(s) ==
    /\ Idle(s)
    /\ sess' = [sess EXCEPT ![s] = Closed]
    /\ inbox' = [inbox EXCEPT ![s] = 0]
    /\ resp' = NoResp
    /\ sent' = CloseFrame(s)
    /\ UNCHANGED <<patients, entries, nextId, raced>>
    /\ signals' = [signals EXCEPT ![s] = <<>>]
    /\ UNCHANGED held

\* receive, type update_status: update_waiting_entry_status, then group_send.
update_waiting_entry_status(s, entry_id, new_status) ==
    IF entry_id \in Ids /\ entries[entry_id].doctor = sess[s].doctor_id
    THEN entries' = SetStatus(entry_id, new_status)
    ELSE entries' = entries

ReceiveUpdateStatus(s, entry_id, new_status) ==
    /\ Idle(s)
    /\ update_waiting_entry_status(s, entry_id, new_status)
    /\ inbox' = group_send(inbox, sess, sess[s].doctor_id)
    /\ resp' = NoResp
    /\ sent' = NoFrame
    /\ UNCHANGED <<patients, nextId, sess, raced>>
    /\ UNCHANGED <<signals, held>>

\* receive, type remove_patient: remove_waiting_entry, then group_send.
\* A slip remove_waiting_entry could make: get(id=entry_id) without doctor_id.
remove_waiting_entry_any_doctor(s, entry_id) ==
    IF entry_id \in Ids
    THEN entries' = [i \in Ids \ {entry_id} |-> entries[i]]
    ELSE entries' = entries

remove_waiting_entry(s, entry_id) ==
    IF entry_id \in Ids /\ entries[entry_id].doctor = sess[s].doctor_id
    THEN entries' = [i \in Ids \ {entry_id} |-> entries[i]]
    ELSE entries' = entries

ReceiveRemovePatient(s, entry_id) ==
    /\ Idle(s)
    /\ remove_waiting_entry(s, entry_id)
    /\ inbox' = group_send(inbox, sess, sess[s].doctor_id)
    /\ resp' = NoResp
    /\ sent' = NoFrame
    /\ UNCHANGED <<patients, nextId, sess, raced>>
    /\ UNCHANGED <<signals, held>>

\* receive, type purge_history: purge_doctor_history and group_send when the
\* frame's doctor_id is the route's, an error frame to the sender otherwise.
\* A slip purge_doctor_history could make: the filter without doctor_id.
purge_doctor_history_every_doctor(s) ==
    entries' = [i \in {j \in Ids : entries[j].status \notin HistoryStatuses}
                  |-> entries[i]]

purge_doctor_history(s) ==
    entries' = [i \in {j \in Ids : ~(/\ entries[j].doctor = sess[s].doctor_id
                                     /\ entries[j].status \in HistoryStatuses)}
                  |-> entries[i]]

\* A slip receive could make: the purge performed whatever doctor_id the frame
\* carries.
ReceivePurgeHistory_unchecked(s, requested_doctor_id) ==
    /\ Idle(s)
    /\ purge_doctor_history(s)
    /\ inbox' = group_send(inbox, sess, sess[s].doctor_id)
    /\ sent' = NoFrame
    /\ resp' = NoResp
    /\ UNCHANGED <<patients, nextId, sess, raced>>
    /\ UNCHANGED <<signals, held>>

ReceivePurgeHistory(s, requested_doctor_id) ==
    /\ Idle(s)
    /\ IF requested_doctor_id = sess[s].doctor_id
       THEN /\ purge_doctor_history(s)
            /\ inbox' = group_send(inbox, sess, sess[s].doctor_id)
            /\ sent' = NoFrame
       ELSE /\ UNCHANGED <<entries, inbox>>
            /\ sent' = ErrorFrame(s)
    /\ resp' = NoResp
    /\ UNCHANGED <<patients, nextId, sess, raced>>
    /\ UNCHANGED <<signals, held>>

\* receive, type leave_queue: _mark_patient_as_cancelled looks the entry up under
\* the frame's doctor_id and notifies the connection's own group.
_mark_patient_as_cancelled(s, patient_uuid, doctor_id) ==
    LET got == QuerySetGet({i \in Ids : /\ entries[i].patient = patient_uuid
                                        /\ entries[i].doctor = doctor_id
                                        /\ entries[i].status \in ActiveStatuses})
    IN IF patient_uuid # BadUuid /\ got.kind = "one"
       THEN /\ entries' = SetStatus(got.id, "Cancelled")
            /\ inbox' = group_send(inbox, sess, sess[s].doctor_id)
       ELSE UNCHANGED <<entries, inbox>>

ReceiveLeaveQueue(s, patient_uuid, doctor_id) ==
    /\ Idle(s)
    /\ _mark_patient_as_cancelled(s, patient_uuid, doctor_id)
    /\ resp' = NoResp
    /\ sent' = NoFrame
    /\ UNCHANGED <<patients, nextId, sess, raced>>
    /\ UNCHANGED <<signals, held>>

\* waiting_list_update: the consumer takes one message off its channel and
\* pushes get_waiting_list_data(self.doctor_id) to its client.
WaitingListUpdate(s) ==
    /\ Idle(s)
    /\ inbox[s] > 0
    /\ inbox' = [inbox EXCEPT ![s] = @ - 1]
    /\ resp' = NoResp
    /\ sent' = NoFrame
    /\ UNCHANGED <<patients, entries, nextId, sess, raced>>
    /\ UNCHANGED <<signals, held>>

\* receive, type add_patient.  self.patient_uuid takes the frame's uuid before
\* anything else; then add_patient_to_waiting_room runs up to its existence
\* check: Doctor.objects.get, and Patient.objects.get_or_create by uuid (the name
\* overwritten when it differs) or, without a uuid, by name (a fresh uuid4 for
\* a created row, is_added_by_doctor set).  A missing doctor, a malformed uuid
\* or several patients of that name end the command; receive then sends the
\* refresh all the same.
AddSteps == {"add_exists", "add_host_pin", "add_guest_pin", "add_create"}

Overlaps(s, d, p) ==
    \E t \in Sessions \ {s} : /\ sess[t].pc \in AddSteps
                              /\ sess[t].doctor_id = d
                              /\ sess[t].patient = p

\* A slip receive could make: self.patient_uuid assigned only once the join
\* has gone through.
AddFails_unrecorded(s, patient_uuid) ==
    /\ sess' = sess
    /\ inbox' = group_send(inbox, sess, sess[s].doctor_id)
    /\ UNCHANGED <<patients, raced>>

AddFails(s, patient_uuid) ==
    /\ sess' = [sess EXCEPT ![s].patient_uuid = patient_uuid]
    /\ inbox' = group_send(inbox, sess, sess[s].doctor_id)
    /\ UNCHANGED <<patients, raced>>

AddResolved(s, patient_uuid, p, name) ==
    /\ patients' = [patients EXCEPT ![p] = name]
    /\ sess' = [sess EXCEPT ![s].patient_uuid = patient_uuid,
                            ![s].pc = "add_exists",
                            ![s].patient = p]
    /\ raced' = (raced \/ Overlaps(s, sess[s].doctor_id, p))
    /\ UNCHANGED inbox

\* A slip get_or_create could make: the stored Patient of the name never found.
ReceiveAddPatient_always_mints(s, patient_name, patient_uuid) ==
    /\ Idle(s)
    /\ IF sess[s].doctor_id \notin Doctors \/ patient_uuid = BadUuid
       THEN AddFails(s, patient_uuid)
       ELSE IF patient_uuid # NoUuid
       THEN AddResolved(s, patient_uuid, patient_uuid, patient_name)
       ELSE LET named == {}
                free == {u \in MintPool : patients[u] = NoName}
            IN IF named = {}
               THEN /\ free # {}
                    /\ AddResolved(s, patient_uuid, CHOOSE u \in free : TRUE,
                                   patient_name)
               ELSE IF Cardinality(named) = 1
               THEN AddResolved(s, patient_uuid, CHOOSE u \in named : TRUE,
                                patient_name)
               ELSE AddFails(s, patient_uuid)
    /\ resp' = NoResp
    /\ sent' = NoFrame
    /\ UNCHANGED <<entries, nextId>>
    /\ UNCHANGED <<signals, held>>

ReceiveAddPatient(s, patient_name, patient_uuid) ==
    /\ Idle(s)
    /\ IF sess[s].doctor_id \notin Doctors \/ patient_uuid = BadUuid
       THEN AddFails(s, patient_uuid)
       ELSE IF patient_uuid # NoUuid
       THEN AddResolved(s, patient_uuid, patient_uuid, patient_name)
       ELSE LET named == {u \in AllUuids : patients[u] = patient_name}
                free == {u \in MintPool : patients[u] = NoName}
            IN IF named = {}
               THEN /\ free # {}
                    /\ AddResolved(s, patient_uuid, CHOOSE u \in free : TRUE,
                                   patient_name)
               ELSE IF Cardinality(named) = 1
               THEN AddResolved(s, patient_uuid, CHOOSE u \in named : TRUE,
                                patient_name)
               ELSE AddFails(s, patient_uuid)
    /\ resp' = NoResp
    /\ sent' = NoFrame
    /\ UNCHANGED <<entries, nextId>>
    /\ UNCHANGED <<signals, held>>

\* A slip the existence check could make: only 'Waiting' counted as active.
ActiveEntryExists_waiting_only(d, p) ==
    \E i \in Ids : /\ entries[i].doctor = d
                   /\ entries[i].patient = p
                   /\ entries[i].status = "Waiting"

\* Another slip it could make: 'Waiting' missing from the active statuses.
ActiveEntryExists_not_waiting(d, p) ==
    \E i \in Ids : /\ entries[i].doctor = d
                   /\ entries[i].patient = p
                   /\ entries[i].status \in {"In Progress", "In Call"}

\* WaitingRoomEntry.objects.filter(doctor, patient, status__in=active).exists()
ActiveEntryExists(d, p) ==
    \E i \in Ids : /\ entries[i].doctor = d
                   /\ entries[i].patient = p
                   /\ entries[i].status \in ActiveStatuses

\* The existence check: an active entry of the pair ends the command (the
\* refresh is still sent), none leads on to the PINs.
AddExists(s) ==
    /\ sess[s].open /\ sess[s].pc = "add_exists"
    /\ IF ActiveEntryExists(sess[s].doctor_id, sess[s].patient)
       THEN /\ sess' = [sess EXCEPT ![s] = [Closed EXCEPT !.open = TRUE,
                                  !.doctor_id = sess[s].doctor_id,
                                  !.patient_uuid = sess[s].patient_uuid]]
            /\ inbox' = group_send(inbox, sess, sess[s].doctor_id)
       ELSE /\ sess' = [sess EXCEPT ![s].pc = "add_host_pin"]
            /\ UNCHANGED inbox
    /\ resp' = NoResp
    /\ sent' = NoFrame
    /\ UNCHANGED <<patients, entries, nextId, raced>>
    /\ UNCHANGED <<signals, held>>

\* _generate_unique_pin: the draws that end its loop, those no stored row holds
\* as host_pin or as guest_pin.
_generate_unique_pin ==
    {pin \in Pins : /\ ~\E i \in Ids : entries[i].host_pin = pin
                    /\ ~\E i \in Ids : entries[i].guest_pin = pin}

\* PINs are only ever compared for equality, so values that no row and no
\* command in flight holds are interchangeable: a draw is any value in flight
\* that ends the loop, or the least of the values held nowhere.
InFlight == {sess[t].host_pin : t \in Sessions} \cup {sess[t].guest_pin : t \in Sessions}

FreshDraws ==
    LET fresh == _generate_unique_pin \ InFlight
    IN {pin \in fresh : \A q \in fresh : pin <= q}

Draws == (_generate_unique_pin \cap InFlight) \cup FreshDraws

AddHostPin(s, pin) ==
    /\ sess[s].open /\ sess[s].pc = "add_host_pin"
    /\ pin \in _generate_unique_pin
    /\ sess' = [sess EXCEPT ![s].host_pin = pin, ![s].pc = "add_guest_pin"]
    /\ resp' = NoResp
    /\ sent' = NoFrame
    /\ UNCHANGED <<patients, entries, nextId, inbox, raced>>
    /\ UNCHANGED <<signals, held>>

AddGuestPin(s, pin) ==
    /\ sess[s].open /\ sess[s].pc = "add_guest_pin"
    /\ pin \in _generate_unique_pin
    /\ sess' = [sess EXCEPT ![s].guest_pin = pin, ![s].pc = "add_create"]
    /\ resp' = NoResp
    /\ sent' = NoFrame
    /\ UNCHANGED <<patients, entries, nextId, inbox, raced>>
    /\ UNCHANGED <<signals, held>>

\* host_pin and guest_pin are unique=True, each in its own column: the INSERT
\* raises IntegrityError when a stored row holds the same value in that column.
IntegrityError(host_pin, guest_pin) ==
    \/ \E i \in Ids : entries[i].host_pin = host_pin
    \/ \E i \in Ids : entries[i].guest_pin = guest_pin

\* WaitingRoomEntry.objects.create(...), status 'Waiting', arrived_at set by
\* auto_now_add; then receive sends the refresh.
\* A slip the create could make: is_added_by_doctor left False.
CreateEntry_not_by_doctor(s) ==
    (nextId :> [doctor |-> sess[s].doctor_id,
                patient |-> sess[s].patient,
                status |-> "Waiting",
                arrived_at |-> nextId,
                host_pin |-> sess[s].host_pin,
                guest_pin |-> sess[s].guest_pin,
                added_by_doctor |-> FALSE,
                whiteboard_active |-> FALSE,
                whiteboard_data |-> "[]"]) @@ entries

CreateEntry(s) ==
    (nextId :> [doctor |-> sess[s].doctor_id,
                patient |-> sess[s].patient,
                status |-> "Waiting",
                arrived_at |-> nextId,
                host_pin |-> sess[s].host_pin,
                guest_pin |-> sess[s].guest_pin,
                added_by_doctor |-> (sess[s].patient_uuid = NoUuid),
                whiteboard_active |-> FALSE,
                whiteboard_data |-> "[]"]) @@ entries

AddCreate(s) ==
    /\ sess[s].open /\ sess[s].pc = "add_create"
    /\ IF IntegrityError(sess[s].host_pin, sess[s].guest_pin)
       THEN UNCHANGED <<entries, nextId>>
       ELSE /\ nextId <= MaxEntries
            /\ entries' = CreateEntry(s)
            /\ nextId' = nextId + 1
    /\ sess' = [sess EXCEPT ![s] = [Closed EXCEPT !.open = TRUE,
                                  !.doctor_id = sess[s].doctor_id,
                                  !.patient_uuid = sess[s].patient_uuid]]
    /\ inbox' = group_send(inbox, sess, sess[s].doctor_id)
    /\ resp' = NoResp
    /\ sent' = NoFrame
    /\ UNCHANGED <<patients, raced>>
    /\ UNCHANGED <<signals, held>>

\* Model.save() of an instance read earlier: an UPDATE of every column of the
\* row with that id, or an INSERT when no such row is left, which a PIN stored
\* meanwhile refuses.
Save(i, row) ==
    IF i \in Ids THEN [entries EXCEPT ![i] = row]
    ELSE IF IntegrityError(row.host_pin, row.guest_pin) THEN entries
    ELSE (i :> row) @@ entries

\* A slip _update_whiteboard_active_status could make: no waiting_list_update
\* sent after the save.
_update_whiteboard_active_status_silent(s, patient_uuid, is_active) ==
    LET got == QuerySetGet({i \in Ids : /\ entries[i].patient = patient_uuid
                                        /\ entries[i].doctor = sess[s].doctor_id})
    IN IF patient_uuid # BadUuid /\ got.kind = "one"
       THEN /\ entries' = [entries EXCEPT ![got.id].whiteboard_active = is_active]
            /\ UNCHANGED inbox
       ELSE UNCHANGED <<entries, inbox>>

\* receive, type whiteboard_toggle: _update_whiteboard_active_status gets the
\* entry of the patient and the connection's doctor, whatever its status, sets
\* the flag, saves and sends waiting_list_update to the group.
_update_whiteboard_active_status(s, patient_uuid, is_active) ==
    LET got == QuerySetGet({i \in Ids : /\ entries[i].patient = patient_uuid
                                        /\ entries[i].doctor = sess[s].doctor_id})
    IN IF patient_uuid # BadUuid /\ got.kind = "one"
       THEN /\ entries' = [entries EXCEPT ![got.id].whiteboard_active = is_active]
            /\ inbox' = group_send(inbox, sess, sess[s].doctor_id)
       ELSE UNCHANGED <<entries, inbox>>

ReceiveWhiteboardToggle(s, patient_uuid, is_active) ==
    /\ Idle(s)
    /\ _update_whiteboard_active_status(s, patient_uuid, is_active)
    /\ resp' = NoResp
    /\ sent' = NoFrame
    /\ UNCHANGED <<patients, nextId, sess, raced, signals, held>>

\* The same helper while a request's thread runs beside it: its get() ...
ToggleRead(s, patient_uuid, is_active) ==
    LET got == QuerySetGet({i \in Ids : /\ entries[i].patient = patient_uuid
                                        /\ entries[i].doctor = sess[s].doctor_id})
    IN /\ Idle(s)
       /\ patient_uuid # BadUuid /\ got.kind = "one"
       /\ held' = [held EXCEPT ![s] =
                      [id |-> got.id,
                       row |-> [entries[got.id] EXCEPT !.whiteboard_active = is_active],
                       failure |-> "none"]]
       /\ sess' = [sess EXCEPT ![s].pc = "toggle_save"]
       /\ resp' = NoResp
       /\ sent' = NoFrame
       /\ UNCHANGED <<patients, entries, nextId, inbox, raced, signals>>

\* ... and its save() and group_send.
ToggleSave(s) ==
    /\ sess[s].open /\ sess[s].pc = "toggle_save"
    /\ entries' = Save(held[s].id, held[s].row)
    /\ inbox' = group_send(inbox, sess, sess[s].doctor_id)
    /\ held' = [held EXCEPT ![s] = NoHold]
    /\ sess' = [sess EXCEPT ![s].pc = "idle"]
    /\ resp' = NoResp
    /\ sent' = NoFrame
    /\ UNCHANGED <<patients, nextId, raced, signals>>

\* A slip the get() at disconnect could make: no filter on the status.
DisconnectRead_any_status(s) ==
    LET u == sess[s].patient_uuid
        got == QuerySetGet({i \in Ids : /\ entries[i].patient = u
                                        /\ entries[i].doctor = sess[s].doctor_id})
    IN /\ Idle(s)
       /\ IF u # NoUuid /\ u # BadUuid /\ got.kind = "one"
          THEN /\ held' = [held EXCEPT ![s] =
                             [id |-> got.id,
                              row |-> [entries[got.id] EXCEPT !.status = "Left Call"],
                              failure |-> "none"]]
               /\ sess' = [sess EXCEPT ![s].open = FALSE, ![s].pc = "disconnect_save"]
          ELSE /\ held' = held
               /\ sess' = [sess EXCEPT ![s] = Closed]
       /\ inbox' = [inbox EXCEPT ![s] = 0]
       /\ signals' = [signals EXCEPT ![s] = <<>>]
       /\ resp' = NoResp
       /\ sent' = NoFrame
       /\ UNCHANGED <<patients, entries, nextId, raced>>

\* disconnect while a request's thread runs beside the consumers' thread: the
\* group_discard and the get() of update_patient_status_on_disconnect ...
DisconnectRead(s) ==
    LET u == sess[s].patient_uuid
        got == QuerySetGet({i \in Ids : /\ entries[i].patient = u
                                        /\ entries[i].doctor = sess[s].doctor_id
                                        /\ entries[i].status \in ActiveStatuses})
    IN /\ Idle(s)
       /\ IF u # NoUuid /\ u # BadUuid /\ got.kind = "one"
          THEN /\ held' = [held EXCEPT ![s] =
                             [id |-> got.id,
                              row |-> [entries[got.id] EXCEPT !.status = "Left Call"],
                              failure |-> "none"]]
               /\ sess' = [sess EXCEPT ![s].open = FALSE, ![s].pc = "disconnect_save"]
          ELSE /\ held' = held
               /\ sess' = [sess EXCEPT ![s] = Closed]
       /\ inbox' = [inbox EXCEPT ![s] = 0]
       /\ signals' = [signals EXCEPT ![s] = <<>>]
       /\ resp' = NoResp
       /\ sent' = NoFrame
       /\ UNCHANGED <<patients, entries, nextId, raced>>

\* ... and its save() and group_send, after which the consumer is gone.
DisconnectSave(s) ==
    /\ ~sess[s].open /\ sess[s].pc = "disconnect_save"
    /\ entries' = Save(held[s].id, held[s].row)
    /\ inbox' = group_send(inbox, sess, held[s].row.doctor)
    /\ held' = [held EXCEPT ![s] = NoHold]
    /\ sess' = [sess EXCEPT ![s] = Closed]
    /\ resp' = NoResp
    /\ sent' = NoFrame
    /\ UNCHANGED <<patients, nextId, raced, signals>>

\* receive, types chat_message and drawing_data: the fields of the frame are
\* sent to the group as send_chat_message or send_drawing_data.
Senders == {"Doctor"}
Texts == {"hello"}
Strokes == {"line"}
MaxSignals == 1

ChatSignal(sender, message, patient_uuid) ==
    [type |-> "send_chat_message",
     body |-> [sender |-> sender, message |-> message, data |-> "-",
               patient_uuid |-> patient_uuid]]

DrawingSignal(data, patient_uuid) ==
    [type |-> "send_drawing_data",
     body |-> [sender |-> "-", message |-> "-", data |-> data,
               patient_uuid |-> patient_uuid]]

\* A slip the channel layer's use could make: the message sent to the other
\* members of the group only.
group_send_signal_to_others(s, signal) ==
    /\ \A t \in Group(sess, sess[s].doctor_id) : Len(signals[t]) < MaxSignals
    /\ signals' = [t \in Sessions |->
                      IF t \in Group(sess, sess[s].doctor_id) \ {s}
                      THEN Append(signals[t], signal)
                      ELSE signals[t]]

\* group_send of a chat or drawing message to the group of connection s.
group_send_signal(s, signal) ==
    /\ \A t \in Group(sess, sess[s].doctor_id) : Len(signals[t]) < MaxSignals
    /\ signals' = [t \in Sessions |->
                      IF t \in Group(sess, sess[s].doctor_id)
                      THEN Append(signals[t], signal)
                      ELSE signals[t]]

ReceiveChatMessage(s, sender, message, patient_uuid) ==
    /\ Idle(s)
    /\ group_send_signal(s, ChatSignal(sender, message, patient_uuid))
    /\ resp' = NoResp
    /\ sent' = NoFrame
    /\ UNCHANGED <<patients, entries, nextId, sess, inbox, raced, held>>

ReceiveDrawingData(s, data, patient_uuid) ==
    /\ Idle(s)
    /\ group_send_signal(s, DrawingSignal(data, patient_uuid))
    /\ resp' = NoResp
    /\ sent' = NoFrame
    /\ UNCHANGED <<patients, entries, nextId, sess, inbox, raced, held>>

\* send_chat_message and send_drawing_data: the consumer takes the message off
\* its channel and sends its fields to its client.
send_chat_message(s) ==
    /\ Idle(s)
    /\ signals[s] # <<>>
    /\ Head(signals[s]).type = "send_chat_message"
    /\ sent' = [to |-> s, type |-> "chat_message", body |-> Head(signals[s]).body]
    /\ signals' = [signals EXCEPT ![s] = Tail(@)]
    /\ resp' = NoResp
    /\ UNCHANGED <<patients, entries, nextId, sess, inbox, raced, held>>

send_drawing_data(s) ==
    /\ Idle(s)
    /\ signals[s] # <<>>
    /\ Head(signals[s]).type = "send_drawing_data"
    /\ sent' = [to |-> s, type |-> "drawing_data", body |-> Head(signals[s]).body]
    /\ signals' = [signals EXCEPT ![s] = Tail(@)]
    /\ resp' = NoResp
    /\ UNCHANGED <<patients, entries, nextId, sess, inbox, raced, held>>

(***************************************************************************)
(* pexip_events: the event sink                                            *)
(***************************************************************************)
\* The event and role pairs the view tells apart.
EventKinds == {<<"participant_connected", "guest">>,
               <<"participant_connected", "host">>,
               <<"participant_disconnected", "guest">>,
               <<"participant_disconnected", "host">>,
               <<"conference_ended", "None">>,
               <<"conference_started", "None">>}
\* What fails inside the helper: nothing, the store, or the channel layer.
Failures == {"none", "store", "channel_layer"}

EventRequest(method, body, kind, alias, failure) ==
    [method |-> method, body |-> body, event |-> kind[1], role |-> kind[2],
     destination_alias |-> alias, failure |-> failure]

\* Requests to the event sink: another method than POST; a POST whose body is
\* not JSON, is JSON but no object, or lacks destination_alias; a POST of an
\* event for an alias; one during which the store or the channel layer fails.
EventRequests ==
    {EventRequest("GET", "object", <<"conference_ended", "None">>, "u1", "none")}
    \cup {EventRequest("POST", b, <<"conference_ended", "None">>, "u1", "none") :
            b \in {"invalid_json", "not_an_object"}}
    \cup {EventRequest("POST", "object", <<"conference_ended", "None">>, NoUuid, "none")}
    \cup {EventRequest("POST", "object", k, a, "none") :
            k \in EventKinds, a \in AllUuids \cup {BadUuid}}
    \cup {EventRequest("POST", "object", <<"participant_connected", "guest">>, "u1", f) :
            f \in Failures}

\* A slip the dispatch could make: participant_connected and
\* participant_disconnected acted upon whatever the role.
EventStatus_any_role(event_type, participant_role) ==
    IF event_type = "participant_connected" THEN "In Call"
    ELSE IF event_type = "participant_disconnected" THEN "Left Call"
    ELSE IF event_type = "conference_ended" THEN "Left Call"
    ELSE "-"

\* The status an event asks for ("-" when the view performs no update).
EventStatus(event_type, participant_role) ==
    IF event_type = "participant_connected" /\ participant_role = "guest" THEN "In Call"
    ELSE IF event_type = "participant_disconnected" /\ participant_role = "guest"
    THEN "Left Call"
    ELSE IF event_type = "conference_ended" THEN "Left Call"
    ELSE "-"

\* _update_entry_status_and_notify: get() by patient uuid alone; every
\* exception is logged and swallowed.
_update_entry_status_and_notify(patient_uuid_str, new_status, failure) ==
    LET got == QuerySetGet({i \in Ids : entries[i].patient = patient_uuid_str})
    IN IF /\ patient_uuid_str # BadUuid
          /\ failure # "store"
          /\ got.kind = "one"
          /\ entries[got.id].status # new_status
       THEN /\ entries' = SetStatus(got.id, new_status)
            /\ inbox' = IF failure = "channel_layer" THEN inbox
                        ELSE group_send(inbox, sess, entries[got.id].doctor)
       ELSE UNCHANGED <<entries, inbox>>

EventResponse(code, status) ==
    [NoResp EXCEPT !.endpoint = "events", !.code = code, !.status = status]

\* A slip the view could make: unparseable JSON answered with 400.
EventSinkResponse_bad_request(req) ==
    IF req.method # "POST" THEN EventResponse(200, "error")
    ELSE IF req.body = "invalid_json" THEN EventResponse(400, "error")
    ELSE IF req.body = "not_an_object" THEN EventResponse(200, "error")
    ELSE IF req.destination_alias = NoUuid THEN EventResponse(200, "error")
    ELSE EventResponse(200, "success")

\* pexip_event_sink_view: what it answers ...
EventSinkResponse(req) ==
    IF req.method # "POST" THEN EventResponse(200, "error")
    ELSE IF req.body = "invalid_json" THEN EventResponse(200, "error")
    ELSE IF req.body = "not_an_object" THEN EventResponse(200, "error")
    ELSE IF req.destination_alias = NoUuid THEN EventResponse(200, "error")
    ELSE EventResponse(200, "success")

\* ... and what it does to the store and the channels.
pexip_event_sink_view(req) ==
    IF /\ req.method = "POST"
       /\ req.body = "object"
       /\ req.destination_alias # NoUuid
       /\ EventStatus(req.event, req.role) # "-"
    THEN _update_entry_status_and_notify(req.destination_alias,
                                         EventStatus(req.event, req.role), req.failure)
    ELSE UNCHANGED <<entries, inbox>>

\* An event-sink request, its response observed ...
EventSink(req) ==
    /\ pexip_event_sink_view(req)
    /\ resp' = EventSinkResponse(req)
    /\ sent' = NoFrame
    /\ UNCHANGED <<patients, nextId, sess, raced>>
    /\ UNCHANGED <<signals, held>>

\* ... or left to the provider.
EventSinkQuiet(req) ==
    /\ pexip_event_sink_view(req)
    /\ resp' = NoResp
    /\ sent' = NoFrame
    /\ UNCHANGED <<patients, nextId, sess, raced>>
    /\ UNCHANGED <<signals, held>>

\* The helper in the thread of its request, beside the consumers' thread: its
\* get() and the assignment of the status ...
HookRead(req) ==
    LET new_status == EventStatus(req.event, req.role)
        got == QuerySetGet({i \in Ids : entries[i].patient = req.destination_alias})
    IN /\ held["hook"] = NoHold
       /\ req.method = "POST" /\ req.body = "object"
       /\ req.destination_alias # NoUuid /\ req.destination_alias # BadUuid
       /\ new_status # "-"
       /\ req.failure # "store"
       /\ got.kind = "one"
       /\ entries[got.id].status # new_status
       /\ held' = [held EXCEPT !["hook"] =
                      [id |-> got.id,
                       row |-> [entries[got.id] EXCEPT !.status = new_status],
                       failure |-> req.failure]]
       /\ resp' = NoResp
       /\ sent' = NoFrame
       /\ UNCHANGED <<patients, entries, nextId, sess, inbox, raced, signals>>

\* ... and its save() and group_send.
HookSave ==
    /\ held["hook"] # NoHold
    /\ entries' = Save(held["hook"].id, held["hook"].row)
    /\ inbox' = IF held["hook"].failure = "channel_layer" THEN inbox
                ELSE group_send(inbox, sess, held["hook"].row.doctor)
    /\ held' = [held EXCEPT !["hook"] = NoHold]
    /\ resp' = NoResp
    /\ sent' = NoFrame
    /\ UNCHANGED <<patients, nextId, sess, raced, signals>>

(***************************************************************************)
(* pexip_policy: the service configuration lookup                          *)
(***************************************************************************)
Roles == {"guest", "host", "chair", "None"}

PolicyRequest(method, alias, name, role) ==
    [method |-> method, local_alias |-> alias, remote_display_name |-> name,
     role |-> role]

\* Requests to the policy endpoint: another method than GET; a GET without
\* local_alias; a GET for an alias, with a role or with a display name only.
PolicyRequests ==
    {PolicyRequest("POST", "u1", "Alice", "guest")}
    \cup {PolicyRequest("GET", NoUuid, "Alice", r) : r \in {"guest", "host"}}
    \cup {PolicyRequest("GET", a, "Alice", r) :
            a \in AllUuids \cup {BadUuid}, r \in Roles}
    \cup {PolicyRequest("GET", a, "Dr. Who", "None") : a \in AllUuids \cup {BadUuid}}

\* The role the view works with: the query's, or one inferred from the name
\* (remote_display_name.lower().startswith('dr.')).
ResolveRole(role, remote_display_name) ==
    IF role # "None" THEN role
    ELSE IF remote_display_name = "Dr. Who" THEN "host"
    ELSE "guest"

RoleStatuses(role) ==
    IF role = "guest" THEN {"Waiting", "In Progress"}
    ELSE IF role = "host" THEN {"In Progress", "In Call"}
    ELSE {}

\* _get_conference_details: the matching entry's id, or 0 for None.
_get_conference_details(conference_alias, role) ==
    LET got == QuerySetGet({i \in Ids : /\ entries[i].patient = conference_alias
                                        /\ entries[i].status \in RoleStatuses(role)})
    IN IF role \in {"guest", "host"} /\ conference_alias # BadUuid /\ got.kind = "one"
       THEN got.id
       ELSE 0

pexip_policy_view(req) ==
    LET role == ResolveRole(req.role, req.remote_display_name)
        details == _get_conference_details(req.local_alias, role)
        reject == [NoResp EXCEPT !.endpoint = "policy", !.code = 200,
                                 !.action = "reject"]
    IN IF req.method # "GET"
       THEN [NoResp EXCEPT !.endpoint = "policy", !.code = 400]
       ELSE IF req.local_alias = NoUuid THEN reject
       ELSE IF details # 0
       THEN [NoResp EXCEPT !.endpoint = "policy", !.code = 200,
                           !.status = "success", !.action = "continue",
                           !.pin = entries[details].host_pin,
                           !.guest_pin = entries[details].guest_pin]
       ELSE reject

Policy(req) ==
    /\ resp' = pexip_policy_view(req)
    /\ sent' = NoFrame
    /\ UNCHANGED <<patients, entries, nextId, sess, inbox, raced>>
    /\ UNCHANGED <<signals, held>>

(***************************************************************************)
(* The system                                                              *)
(***************************************************************************)
Init ==
    /\ patients = [u \in AllUuids |-> NoName]
    /\ entries = <<>>
    /\ nextId = 1
    /\ sess = [s \in Sessions |-> Closed]
    /\ inbox = [s \in Sessions |-> 0]
    /\ raced = FALSE
    /\ resp = NoResp
    /\ sent = NoFrame
    /\ signals = [s \in Sessions |-> <<>>]
    /\ held = [th \in Threads |-> NoHold]

\* Connections come and go and patients join: the connections SS, the routes
\* RR they connect to and the uuids JJ their add_patient frames carry.
Joining(SS, RR, JJ) ==
    \/ \E s \in SS, d \in RR : Connect(s, d)
    \/ \E s \in SS : Disconnect(s)
    \/ \E s \in SS, n \in Names, u \in JJ : ReceiveAddPatient(s, n, u)
    \/ \E s \in SS : AddExists(s)
    \/ \E s \in SS : AddCreate(s)
    \/ \E s \in SS : WaitingListUpdate(s)

\* The PIN draws of the connections SS: draws that collide with nothing ...
DrawingFresh(SS) ==
    \/ \E s \in SS, pin \in FreshDraws : AddHostPin(s, pin)
    \/ \E s \in SS, pin \in FreshDraws : AddGuestPin(s, pin)

\* ... or any draw.
Drawing(SS) ==
    \/ \E s \in SS, pin \in Draws : AddHostPin(s, pin)
    \/ \E s \in SS, pin \in Draws : AddGuestPin(s, pin)

\* The other frames of the connections SS.
Commands(SS) ==
    \/ \E s \in SS, e \in 1..MaxEntries, st \in ClientStatuses :
          ReceiveUpdateStatus(s, e, st)
    \/ \E s \in SS, e \in 1..MaxEntries : ReceiveRemovePatient(s, e)
    \/ \E s \in SS, d \in RouteIds : ReceivePurgeHistory(s, d)
    \/ \E s \in SS, u \in AllUuids \cup {BadUuid}, d \in RouteIds :
          ReceiveLeaveQueue(s, u, d)
    \/ \E s \in SS : ReceiveUnparseable(s)

\* Two connections on the route of doctor 1, every frame, and the provider's
\* events; the PIN draws collide with nothing.  Here and below every
\* add_patient frame carries a patient_uuid (no join by name alone).
Next ==
    \/ Joining(Sessions, {1}, ClientUuids)
    \/ DrawingFresh(Sessions)
    \/ Commands(Sessions)
    \/ \E req \in EventRequests : EventSinkQuiet(req)

Spec == Init /\ [][Next]_vars

\* One connection on any route, every frame, and the provider's requests with
\* their responses observed; the PIN draws may collide.
NextHttp ==
    \/ Joining({"s1"}, RouteIds, ClientUuids \cup {BadUuid})
    \/ Drawing({"s1"})
    \/ Commands({"s1"})
    \/ \E req \in EventRequests : EventSink(req)
    \/ \E req \in PolicyRequests : Policy(req)

SpecHttp == Init /\ [][NextHttp]_vars

\* Two connections on the route of doctor 1 that only join and leave; the PIN
\* draws may collide.
NextPins ==
    \/ Joining(Sessions, {1}, ClientUuids)
    \/ Drawing(Sessions)

SpecPins == Init /\ [][NextPins]_vars

\* A status string outside STATUS_CHOICES that an update_status frame may carry.
OtherStatus == "Paused"

\* Two connections on the route of doctor 1 whose add_patient frames carry a
\* patient_uuid or a name alone, and update_status frames with a status of
\* STATUS_CHOICES or another string; the PIN draws collide with nothing.
NextDesk ==
    \/ Joining(Sessions, {1}, ClientUuids \cup {NoUuid})
    \/ DrawingFresh(Sessions)
    \/ \E s \in Sessions, e \in 1..MaxEntries, st \in {"Done", OtherStatus} :
          ReceiveUpdateStatus(s, e, st)

SpecDesk == Init /\ [][NextDesk]_vars

\* Two connections on the routes of both doctors: joins, leave_queue frames
\* naming either doctor, whiteboard_toggle frames and disconnects that find
\* the store down; the PIN draws collide with nothing.
NextRooms ==
    \/ Joining(Sessions, Doctors, ClientUuids)
    \/ DrawingFresh(Sessions)
    \/ \E s \in Sessions, u \in ClientUuids, d \in Doctors : ReceiveLeaveQueue(s, u, d)
    \/ \E s \in Sessions, u \in ClientUuids, b \in BOOLEAN :
          ReceiveWhiteboardToggle(s, u, b)
    \/ \E s \in Sessions : DisconnectFailing(s)

SpecRooms == Init /\ [][NextRooms]_vars

\* Two connections on the routes of both doctors: joins, chat_message and
\* drawing_data frames with or without a patient_uuid, and the delivery of the
\* messages to the clients; the PIN draws collide with nothing.
NextChat ==
    \/ Joining(Sessions, Doctors, ClientUuids)
    \/ DrawingFresh(Sessions)
    \/ \E s \in Sessions, n \in Senders, m \in Texts, u \in ClientUuids \cup {NoUuid} :
          ReceiveChatMessage(s, n, m, u)
    \/ \E s \in Sessions, x \in Strokes, u \in ClientUuids \cup {NoUuid} :
          ReceiveDrawingData(s, x, u)
    \/ \E s \in Sessions : send_chat_message(s)
    \/ \E s \in Sessions : send_drawing_data(s)

SpecChat == Init /\ [][NextChat]_vars

\* Two connections on the route of doctor 1: joins, the frames that change the
\* queue (update_status to Done, remove_patient, purge_history) and the
\* whiteboard, chat and drawing frames, whose messages stay in the channels;
\* the PIN draws collide with nothing.
NextAdvisory ==
    \/ Joining(Sessions, {1}, ClientUuids)
    \/ DrawingFresh(Sessions)
    \/ \E s \in Sessions, e \in 1..MaxEntries : ReceiveUpdateStatus(s, e, "Done")
    \/ \E s \in Sessions, e \in 1..MaxEntries : ReceiveRemovePatient(s, e)
    \/ \E s \in Sessions, d \in Doctors : ReceivePurgeHistory(s, d)
    \/ \E s \in Sessions, u \in ClientUuids \cup {BadUuid}, b \in BOOLEAN :
          ReceiveWhiteboardToggle(s, u, b)
    \/ \E s \in Sessions, n \in Senders, m \in Texts, u \in ClientUuids :
          ReceiveChatMessage(s, n, m, u)
    \/ \E s \in Sessions, x \in Strokes, u \in ClientUuids : ReceiveDrawingData(s, x, u)

SpecAdvisory == Init /\ [][NextAdvisory]_vars

\* A patient's connection and a connection that only listens, on the route of
\* doctor 1, beside the thread of an event sink request: between the get() and
\* the save() of a helper of one thread the other thread may run.  The
\* patient's connection joins, toggles the whiteboard, leaves the queue, has
\* an entry set to Done and disconnects; the PIN draws collide with nothing.
NextBoard ==
    \/ \E s \in Sessions : Connect(s, 1)
    \/ \E s \in Sessions : WaitingListUpdate(s)
    \/ \E n \in Names, u \in ClientUuids : ReceiveAddPatient("s1", n, u)
    \/ AddExists("s1")
    \/ AddCreate("s1")
    \/ DrawingFresh({"s1"})
    \/ \E u \in ClientUuids, b \in BOOLEAN : ToggleRead("s1", u, b)
    \/ ToggleSave("s1")
    \/ \E u \in ClientUuids : ReceiveLeaveQueue("s1", u, 1)
    \/ \E e \in 1..MaxEntries : ReceiveUpdateStatus("s1", e, "Done")
    \/ DisconnectRead("s1")
    \/ DisconnectSave("s1")
    \/ \E req \in EventRequests : HookRead(req)
    \/ HookSave

SpecBoard == Init /\ [][NextBoard]_vars

\* Two connections on the route of doctor 1 or of a doctor that does not
\* exist, whose add_patient frames carry a patient_uuid, a malformed one or a
\* name alone; the PIN draws collide with nothing.
NextFailing ==
    \/ Joining(Sessions, {1, 3}, ClientUuids \cup {BadUuid, NoUuid})
    \/ DrawingFresh(Sessions)

SpecFailing == Init /\ [][NextFailing]_vars

(***************************************************************************)
(* Properties                                                              *)
(***************************************************************************)
\* The entries of doctor d and patient p that are in the active queue.
ActiveOf(d, p) == {i \in Ids : /\ entries[i].doctor = d
                               /\ entries[i].patient = p
                               /\ entries[i].status \in {"Waiting", "In Progress", "In Call"}}

\* C1: for every doctor D, in every reachable state, the waiting_list snapshot
\* computed for D holds exactly the stored entries of D whose status is not
\* Done, Cancelled or Left Call, each once, in ascending order of arrival, and
\* no entry of another doctor.
C1_SnapshotExact ==
    \A d \in Doctors :
        LET snapshot == get_waiting_list_data(d)
            listed == {snapshot[k] : k \in 1..Len(snapshot)}
        IN /\ listed = {i \in Ids : /\ entries[i].doctor = d
                                    /\ entries[i].status \notin
                                          {"Done", "Cancelled", "Left Call"}}
           /\ Len(snapshot) = Cardinality(listed)
           /\ \A k \in 1..Len(snapshot), l \in 1..Len(snapshot) :
                 k < l => entries[snapshot[k]].arrived_at <= entries[snapshot[l]].arrived_at

\* A snapshot of two entries while the other doctor's entries are none of it.
C1_Witness ==
    \E d \in Doctors : /\ Len(get_waiting_list_data(d)) = 2
                       /\ \A i \in Ids : entries[i].doctor = d

\* C2, as the specification states it: as long as no two add_patient commands
\* of one (doctor, patient) pair have overlapped, the pair has at most one
\* entry in Waiting, In Progress or In Call.
C2_OneActivePerPair ==
    ~raced => \A d \in Doctors, p \in AllUuids : Cardinality(ActiveOf(d, p)) <= 1

\* C3: when the add_patient command of a connection reaches its existence
\* check while its (doctor, patient) pair has an entry in Waiting, In Progress
\* or In Call, the command ends there: it creates no entry and leaves every
\* stored entry, its status and its PINs, as it was.
C3_JoinIdempotent ==
    [][\A s \in Sessions :
          (/\ sess[s].pc = "add_exists"
           /\ ActiveOf(sess[s].doctor_id, sess[s].patient) # {}
           /\ sess'[s] # sess[s])
          => (/\ entries' = entries
              /\ nextId' = nextId
              /\ sess'[s].pc = "idle")]_vars

\* A second add_patient of a pair at its existence check, the first one's entry
\* still active and no command having overlapped another.
C3_Witness ==
    \E s \in Sessions : /\ sess[s].pc = "add_exists"
                        /\ ActiveOf(sess[s].doctor_id, sess[s].patient) # {}
                        /\ ~raced

\* C3, as the specification states it: after such a second add_patient the
\* store moreover holds exactly one entry of the pair.
C3_ExactlyOneEntry ==
    [][\A s \in Sessions :
          (/\ sess[s].pc = "add_exists"
           /\ ActiveOf(sess[s].doctor_id, sess[s].patient) # {}
           /\ ~raced
           /\ sess'[s] # sess[s])
          => (/\ entries' = entries
              /\ Cardinality({i \in DOMAIN entries' :
                                 /\ entries'[i].doctor = sess[s].doctor_id
                                 /\ entries'[i].patient = sess[s].patient}) = 1)]_vars

\* C4, as the specification states it: the host PIN of an entry differs from
\* its guest PIN, and no PIN of one entry is a PIN of another.
C4_PinsUnique ==
    \A i \in Ids :
        /\ entries[i].host_pin # entries[i].guest_pin
        /\ \A j \in Ids \ {i} :
              {entries[i].host_pin, entries[i].guest_pin}
                 \cap {entries[j].host_pin, entries[j].guest_pin} = {}

\* C5, as the specification states it: a request for the status an entry
\* already has publishes no refresh and writes nothing, be it an update_status
\* command or an event of the provider.
C5_EqualStatusNoOp ==
    [][/\ \A s \in Sessions, e \in Ids :
             ReceiveUpdateStatus(s, e, entries[e].status)
                => (entries' = entries /\ inbox' = inbox)
       /\ \A req \in EventRequests, e \in Ids :
             (/\ EventSinkQuiet(req)
              /\ req.method = "POST" /\ req.body = "object"
              /\ req.destination_alias = entries[e].patient
              /\ EventStatus(req.event, req.role) = entries[e].status
              /\ \A o \in Ids \ {e} : entries[o].patient # entries[e].patient)
                => (entries' = entries /\ inbox' = inbox)]_vars

\* C6, as the specification states it, its first half: when a connection that
\* issued add_patient with uuid U disconnects, no entry of its doctor and U is
\* left in Waiting, In Progress or In Call (even when no two add_patient
\* commands have overlapped).
C6_DisconnectLeavesCall ==
    [][\A s \in Sessions :
          (Disconnect(s) /\ sess[s].patient_uuid \in AllUuids /\ ~raced)
          => ~\E i \in DOMAIN entries' :
                 /\ entries'[i].doctor = sess[s].doctor_id
                 /\ entries'[i].patient = sess[s].patient_uuid
                 /\ entries'[i].status \in {"Waiting", "In Progress", "In Call"}]_vars

\* C7, as the specification states it: no event-sink request changes an entry
\* whose status is Done, Cancelled or Left Call.
C7_TerminalUntouched ==
    [][\A req \in EventRequests :
          EventSink(req)
          => \A i \in Ids : entries[i].status \in {"Done", "Cancelled", "Left Call"}
                               => entries'[i] = entries[i]]_vars

\* C8, as the specification states it: while patient U has an entry In
\* Progress, the event participant_connected of a guest for alias U puts that
\* entry In Call, publishes a refresh to its doctor's group and is answered 200
\* with status "success"; U's other entries, if any, are all in Done,
\* Cancelled or Left Call.
C8_GuestConnected ==
    [][\A i \in Ids :
          (/\ entries[i].status = "In Progress"
           /\ \A o \in Ids \ {i} :
                 entries[o].patient = entries[i].patient
                    => entries[o].status \in {"Done", "Cancelled", "Left Call"}
           /\ EventSink(EventRequest("POST", "object",
                                     <<"participant_connected", "guest">>,
                                     entries[i].patient, "none")))
          => (/\ entries'[i].status = "In Call"
              /\ inbox' = group_send(inbox, sess, entries[i].doctor)
              /\ resp'.code = 200
              /\ resp'.status = "success")]_vars

\* C9, as the specification states it: a policy GET for alias U and resolved
\* role r is answered "continue" exactly when some entry of U has a status of
\* r's set, "reject" otherwise, and "continue" carries that entry's PINs; no
\* (doctor, patient) pair has two entries in the active queue.
C9_PolicyDecision ==
    [][\A req \in PolicyRequests :
          (/\ Policy(req)
           /\ req.method = "GET"
           /\ \A d \in Doctors, p \in AllUuids : Cardinality(ActiveOf(d, p)) <= 1)
          => LET r == ResolveRole(req.role, req.remote_display_name)
                 matching ==
                    {i \in Ids :
                        /\ entries[i].patient = req.local_alias
                        /\ \/ r = "guest" /\ entries[i].status \in {"Waiting", "In Progress"}
                           \/ r = "host" /\ entries[i].status \in {"In Progress", "In Call"}}
             IN /\ resp'.action = IF matching # {} THEN "continue" ELSE "reject"
                /\ resp'.action = "continue"
                      => \E i \in matching : /\ resp'.pin = entries[i].host_pin
                                             /\ resp'.guest_pin = entries[i].guest_pin]_vars

\* C10: every request to the event sink is answered with status code 200.
C10_AlwaysSuccess ==
    resp.endpoint = "events" => resp.code = 200

\* An event-sink request answered with an error body.
C10_Witness ==
    resp.endpoint = "events" /\ resp.status = "error"

\* C11, as the specification states it: every request to the policy endpoint,
\* whatever its method, is answered with status code 200, the outcome being
\* carried by the body's action alone.
C11_PolicyAlwaysSuccess ==
    resp.endpoint = "policy" => resp.code = 200 /\ resp.action \in {"continue", "reject"}

\* C12: a purge_history frame whose doctor_id differs from the doctor of the
\* connection it arrives on deletes and changes no entry of any doctor,
\* publishes nothing to any group, and sends one error frame, to the sender.
C12_PurgeMismatchRejected ==
    [][\A s \in Sessions, d \in RouteIds :
          (ReceivePurgeHistory(s, d) /\ d # sess[s].doctor_id)
          => (/\ entries' = entries
              /\ inbox' = inbox
              /\ sent'.type = "error"
              /\ sent'.to = s)]_vars

\* The error frame sent while the sender's doctor has an entry in its history
\* and another connection is in the group.
C12_Witness ==
    /\ sent.type = "error"
    /\ \E i \in Ids : /\ entries[i].doctor = sess[sent.to].doctor_id
                      /\ entries[i].status \in HistoryStatuses
    /\ \E t \in Sessions \ {sent.to} : t \in Group(sess, sess[sent.to].doctor_id)

C14_TransitionsFollowEdges ==
    [][\A i \in Ids \cap DOMAIN entries' :
          entries'[i].status # entries[i].status
          => \/ entries[i].status = "Waiting" /\ entries'[i].status = "In Progress"
             \/ entries[i].status = "In Progress" /\ entries'[i].status = "In Call"
             \/ /\ entries[i].status \in {"Waiting", "In Progress", "In Call"}
                /\ entries'[i].status \in {"Cancelled", "Left Call"}
             \/ /\ entries[i].status \in {"Waiting", "In Progress", "In Call", "Left Call"}
                /\ entries'[i].status = "Done"]_vars

\* C15, as the specification states it: the status of every stored entry is
\* one of Waiting, In Progress, In Call, Left Call, Done and Cancelled, whatever
\* string an update_status frame carries.
C15_StatusInChoices ==
    \A i \in Ids :
        entries[i].status \in {"Waiting", "In Progress", "In Call", "Left Call",
                               "Done", "Cancelled"}

\* C16: a purge_history frame accepted on a connection of doctor D deletes
\* exactly the entries of D whose status is Done, Cancelled or Left Call; the
\* active entries of D and every entry of another doctor stay as they were,
\* and afterwards D has no entry in Done, Cancelled or Left Call.
C16_PurgeExact ==
    [][\A s \in Sessions :
          ReceivePurgeHistory(s, sess[s].doctor_id)
          => LET d == sess[s].doctor_id
                 history == {i \in Ids : /\ entries[i].doctor = d
                                         /\ entries[i].status \in
                                               {"Done", "Cancelled", "Left Call"}}
             IN /\ DOMAIN entries' = Ids \ history
                /\ \A i \in Ids \ history : entries'[i] = entries[i]
                /\ ~\E i \in DOMAIN entries' :
                       /\ entries'[i].doctor = d
                       /\ entries'[i].status \in {"Done", "Cancelled", "Left Call"}]_vars

\* After a purge on the route of a doctor whose history entry is gone, while
\* the history entry of another doctor is still stored.
C16_Witness ==
    \E s \in Sessions :
        /\ Idle(s) /\ inbox[s] > 0
        /\ nextId = 3 /\ Cardinality(Ids) = 1
        /\ \A i \in Ids : /\ entries[i].doctor # sess[s].doctor_id
                          /\ entries[i].status \in HistoryStatuses

\* C17: a remove_patient frame for entry id e on a connection of doctor D
\* deletes e, and nothing else, exactly when e is stored and belongs to D;
\* otherwise the store is unchanged; the connection stays open either way.  An
\* update_status frame changes only the status of e, and only when e belongs
\* to D.
C17_ScopedToDoctor ==
    [][\A s \in {t \in Sessions : Idle(t) /\ resp' = NoResp /\ sess' = sess},
          e \in 1..MaxEntries :
          /\ ReceiveRemovePatient(s, e)
             => /\ IF e \in Ids /\ entries[e].doctor = sess[s].doctor_id
                   THEN /\ DOMAIN entries' = Ids \ {e}
                        /\ \A i \in Ids \ {e} : entries'[i] = entries[i]
                   ELSE entries' = entries
                /\ sess'[s] = sess[s]
          /\ \A st \in ClientStatuses :
                ReceiveUpdateStatus(s, e, st)
                => /\ DOMAIN entries' = Ids
                   /\ \A i \in Ids \ {e} : entries'[i] = entries[i]
                   /\ e \in Ids
                      => entries'[e] =
                            IF entries[e].doctor = sess[s].doctor_id
                            THEN [entries[e] EXCEPT !.status = st]
                            ELSE entries[e]
                   /\ sess'[s] = sess[s]]_vars

\* A connection of a doctor whose own entry has been removed, while the active
\* entry of another doctor is still stored.
C17_Witness ==
    \E s \in Sessions :
        /\ Idle(s) /\ inbox[s] > 0
        /\ sess[s].doctor_id \in Doctors
        /\ nextId = 3 /\ Cardinality(Ids) = 1
        /\ \A i \in Ids : /\ entries[i].doctor # sess[s].doctor_id
                          /\ entries[i].status \in ActiveStatuses

\* C18: an event-sink request that is neither participant_connected of a
\* guest, nor participant_disconnected of a guest, nor conference_ended leaves
\* every stored entry as it was and publishes nothing to any group: a step that
\* changes the store or a channel is no such request.
C18_UnrecognizedEventIgnored ==
    [][\/ entries' = entries /\ inbox' = inbox
       \/ ~\E req \in EventRequests :
              /\ ~(req.event = "participant_connected" /\ req.role = "guest")
              /\ ~(req.event = "participant_disconnected" /\ req.role = "guest")
              /\ req.event # "conference_ended"
              /\ EventSink(req)]_vars

\* An event acknowledged with "success" that left the patient's one entry
\* Waiting and the channel of the connection in its doctor's group empty.
C18_Witness ==
    /\ resp.endpoint = "events" /\ resp.status = "success"
    /\ \E i \in Ids : /\ entries[i].status = "Waiting"
                      /\ \A o \in Ids \ {i} : entries[o].patient # entries[i].patient
                      /\ \E s \in Group(sess, entries[i].doctor) : inbox[s] = 0

\* C19, as the specification states it: the step that handles an inbound
\* frame, be it unparseable, a command naming a missing entry, or an
\* add_patient on the route of an unknown doctor or with a malformed uuid,
\* leaves the connection open and in its doctor's group; an unparseable frame
\* is answered with an error frame to its sender.
C19_FramesKeepConnection ==
    [][\A s \in Sessions :
          /\ (\/ ReceiveUnparseable(s)
              \/ \E e \in 1..MaxEntries : ReceiveRemovePatient(s, e)
              \/ \E n \in Names, u \in ClientUuids \cup {BadUuid} :
                    ReceiveAddPatient(s, n, u))
             => (/\ sess'[s].open
                 /\ s \in Group(sess', sess[s].doctor_id))
          /\ ReceiveUnparseable(s) => (sent'.type = "error" /\ sent'.to = s)]_vars

\* C20: two add_patient commands of one doctor and one patient uuid on
\* different connections, interleaved so that both existence checks run before
\* either create, leave two Waiting entries of the pair; connections that only
\* join and leave reach two Waiting entries of a pair in no other way.
C20_DuplicateOnlyByRace ==
    \A d \in Doctors, p \in AllUuids :
        Cardinality({i \in Ids : /\ entries[i].doctor = d
                                 /\ entries[i].patient = p
                                 /\ entries[i].status = "Waiting"}) >= 2
        => raced

\* Two Waiting entries of one doctor and one patient uuid, after two
\* add_patient commands of the pair overlapped.
C20_Witness ==
    /\ raced
    /\ \E i \in Ids, j \in Ids :
          /\ i # j
          /\ entries[i].doctor = entries[j].doctor
          /\ entries[i].patient = entries[j].patient
          /\ entries[i].patient \in ClientUuids
          /\ entries[i].status = "Waiting" /\ entries[j].status = "Waiting"

\* C21, as the specification states it: every step that changes the waiting
\* list of a doctor D (its entries, their statuses, patient names, whiteboard
\* flags or order) publishes a refresh to D's group, so that every connection
\* in the group holds a waiting_list_update afterwards.
C21_ChangesPublished ==
    [][\A d \in Doctors :
          WaitingListData(d)' # WaitingListData(d)
          => \A t \in Group(sess', d) : inbox'[t] > 0]_vars

\* C22, as amended.  An add_patient frame with a name and no uuid, on the route
\* of an existing doctor, creates a Patient (with a newly minted uuid) exactly
\* when no Patient of that name is stored, a Patient stored under exactly that
\* name by an earlier join, with or without a uuid, is the one it resolves to,
\* and no Patient row is created or changed then; every entry such a join
\* creates is of the Patient it resolved to and has added_by_doctor true.
C22_NameJoinReusesPatient ==
    [][\A s \in Sessions :
          /\ \A n \in Names :
                (/\ sess[s].pc = "idle"
                 /\ sess'[s].patient_uuid = NoUuid
                 /\ sess[s].doctor_id \in Doctors
                 /\ ReceiveAddPatient(s, n, NoUuid))
                => LET named == {u \in AllUuids : patients[u] = n}
                       minted == {u \in AllUuids : /\ patients[u] = NoName
                                                   /\ patients'[u] # NoName}
                   IN /\ named = {} => /\ minted = {sess'[s].patient}
                                       /\ sess'[s].patient \in MintPool
                      /\ named # {} => /\ minted = {}
                                       /\ patients' = patients
                      /\ Cardinality(named) = 1
                         => /\ sess'[s].pc = "add_exists"
                            /\ sess'[s].patient \in named
          /\ (/\ sess[s].pc = "add_create"
              /\ sess[s].patient_uuid = NoUuid
              /\ AddCreate(s))
             => \A i \in (DOMAIN entries') \ Ids :
                   /\ entries'[i].patient = sess[s].patient
                   /\ entries'[i].added_by_doctor = TRUE]_vars

\* A doctor-added entry of a Patient whose uuid a client supplied: the join by
\* name alone found the Patient stored by the earlier join with that uuid.
C22_Witness ==
    \E i \in Ids : /\ entries[i].added_by_doctor
                   /\ entries[i].patient \in ClientUuids
                   /\ patients[entries[i].patient] \in Names
                   /\ \A u \in MintPool : patients[u] = NoName

\* C22, as the specification states it: a join by name alone always resolves
\* to a Patient it has just created under a fresh uuid, also when a Patient of
\* that name is stored.
C22_NameJoinAlwaysMints ==
    [][\A s \in Sessions, n \in Names :
          (/\ sess[s].pc = "idle"
           /\ sess[s].doctor_id \in Doctors
           /\ \E u \in AllUuids : patients[u] = n
           /\ ReceiveAddPatient(s, n, NoUuid))
          => /\ sess'[s].patient \in MintPool
             /\ patients[sess'[s].patient] = NoName
             /\ patients'[sess'[s].patient] = n]_vars

\* C23: a disconnect, whether it finds one active entry of its patient, none,
\* several, or the store down, ends with the connection closed and in no
\* group, the other connections as they were, and no refresh in the closed
\* connection's channel; when it changed an entry, the connections that remain
\* in the group hold the refresh.
C23_DisconnectLeavesGroupFirst ==
    [][\A s \in Sessions :
          (/\ sess[s].open
           /\ ~sess'[s].open
           /\ (Disconnect(s) \/ DisconnectFailing(s)))
          => LET d == sess[s].doctor_id
             IN /\ sess'[s] = Closed
                /\ \A r \in RouteIds : s \notin Group(sess', r)
                /\ \A t \in Sessions \ {s} : sess'[t] = sess[t]
                /\ inbox'[s] = 0
                /\ entries' # entries
                   => \A t \in Group(sess, d) \ {s} : inbox'[t] > 0
                /\ entries' = entries
                   => \A t \in Sessions \ {s} : inbox'[t] = inbox[t]]_vars

\* After the disconnect of a patient's connection: its entry is Left Call, the
\* closed connection holds nothing, and the connection that stays in the
\* doctor's group holds the refresh.
C23_Witness ==
    \E s \in Sessions, t \in Sessions, i \in Ids :
        /\ ~sess[s].open
        /\ inbox[s] = 0
        /\ sess[t].open
        /\ entries[i].status = "Left Call"
        /\ sess[t].doctor_id = entries[i].doctor
        /\ inbox[t] > 0
        /\ sent = NoFrame

\* C24: a chat_message or drawing_data frame on a connection of doctor D's
\* group puts one message with the frame's fields (sender, text and patient
\* uuid, or stroke and patient uuid) into the channel of every connection of
\* D's group, the sending one included, and into no other channel; the
\* consumer that takes it off its channel sends exactly these fields to its
\* client.  Neither step changes a stored entry or patient, or sends a refresh.
C24_SignalsReachGroupVerbatim ==
    [][\A s \in Sessions :
          (sess[s].open /\ sess[s].pc = "idle" /\ sess' = sess)
          => LET G == Group(sess, sess[s].doctor_id)
                 Delivered(sig) ==
                     /\ s \in G
                     /\ \A t \in G : signals'[t] = Append(signals[t], sig)
                     /\ \A t \in Sessions \ G : signals'[t] = signals[t]
                     /\ entries' = entries
                     /\ patients' = patients
                     /\ inbox' = inbox
                 Handed(type) ==
                     /\ sent'.to = s
                     /\ sent'.type = type
                     /\ sent'.body = Head(signals[s]).body
                     /\ entries' = entries
                     /\ patients' = patients
                     /\ inbox' = inbox
             IN /\ \A n \in Senders, m \in Texts, u \in ClientUuids \cup {NoUuid} :
                      ReceiveChatMessage(s, n, m, u)
                      => Delivered([type |-> "send_chat_message",
                                    body |-> [sender |-> n, message |-> m,
                                              data |-> "-", patient_uuid |-> u]])
                /\ \A x \in Strokes, u \in ClientUuids \cup {NoUuid} :
                      ReceiveDrawingData(s, x, u)
                      => Delivered([type |-> "send_drawing_data",
                                    body |-> [sender |-> "-", message |-> "-",
                                              data |-> x, patient_uuid |-> u]])
                /\ send_chat_message(s) => Handed("chat_message")
                /\ send_drawing_data(s) => Handed("drawing_data")]_vars

\* A chat message about a patient in the channel of a connection of doctor 1,
\* the same message just handed to the client of the other connection of that
\* group, and a stored entry of doctor 1.
C24_Witness ==
    \E s \in Sessions, t \in Sessions :
        /\ s # t
        /\ sess[s].open /\ sess[t].open
        /\ sess[s].doctor_id = 1 /\ sess[t].doctor_id = 1
        /\ sent.to = s
        /\ sent.type = "chat_message"
        /\ sent.body.patient_uuid \in ClientUuids
        /\ signals[t] = <<[type |-> "send_chat_message", body |-> sent.body]>>
        /\ \E i \in Ids : entries[i].doctor = 1

\* C25, as amended.  The step that completes an update_status, add_patient,
\* remove_patient or accepted purge_history command sends a refresh to every
\* connection of the connection's group and to no other; a chat_message or
\* drawing_data command sends no refresh; a whiteboard_toggle command sends
\* the refresh to the connection's group when it finds the entry of its patient
\* and doctor, and nothing when it does not.
C25_RefreshByCommand ==
    [][\A s \in Sessions :
          LET d == sess[s].doctor_id
              G == Group(sess, d)
              Refreshed == /\ \A t \in G : inbox'[t] > 0 /\ inbox'[t] >= inbox[t]
                           /\ \A t \in Sessions \ G : inbox'[t] = inbox[t]
                           /\ signals' = signals
              Quiet == inbox' = inbox
              found(u) == Cardinality({i \in Ids : /\ entries[i].patient = u
                                                   /\ entries[i].doctor = d}) = 1
          IN /\ (/\ sess[s].open
                 /\ sess[s].pc \in {"add_exists", "add_create"}
                 /\ sess'[s].pc = "idle"
                 /\ (AddExists(s) \/ AddCreate(s)))
                => Refreshed
             /\ (sess[s].open /\ sess[s].pc = "idle" /\ sess' = sess)
                => /\ \/ Refreshed
                      \/ ~ \/ \E e \in 1..MaxEntries : ReceiveUpdateStatus(s, e, "Done")
                           \/ \E e \in 1..MaxEntries : ReceiveRemovePatient(s, e)
                           \/ ReceivePurgeHistory(s, d)
                           \/ \E u \in ClientUuids, b \in BOOLEAN :
                                 found(u) /\ ReceiveWhiteboardToggle(s, u, b)
                   /\ \/ Quiet /\ signals' # signals
                      \/ ~ \/ \E n \in Senders, m \in Texts, u \in ClientUuids :
                                 ReceiveChatMessage(s, n, m, u)
                           \/ \E x \in Strokes, u \in ClientUuids :
                                 ReceiveDrawingData(s, x, u)
                   /\ \/ Quiet /\ entries' = entries
                      \/ ~ \E u \in ClientUuids \cup {BadUuid}, b \in BOOLEAN :
                             ~found(u) /\ ReceiveWhiteboardToggle(s, u, b)]_vars

\* After a whiteboard_toggle that found its entry: the flag is set, both
\* connections of the group hold the refresh, and a chat message waits in a
\* channel beside it.
C25_Witness ==
    /\ \E i \in Ids : entries[i].whiteboard_active
    /\ \A t \in Sessions : sess[t].open /\ sess[t].pc = "idle" /\ inbox[t] > 0
    /\ \E t \in Sessions : signals[t] # <<>>
    /\ sent = NoFrame

\* C25, as the specification states it: a whiteboard_toggle, chat_message or
\* drawing_data command sends no refresh.
C25_AdvisoryNeverRefreshes ==
    [][\A s \in Sessions :
          (sess[s].open /\ sess[s].pc = "idle")
          => ((\/ \E u \in ClientUuids \cup {BadUuid}, b \in BOOLEAN :
                     ReceiveWhiteboardToggle(s, u, b)
               \/ \E n \in Senders, m \in Texts, u \in ClientUuids :
                     ReceiveChatMessage(s, n, m, u)
               \/ \E x \in Strokes, u \in ClientUuids : ReceiveDrawingData(s, x, u))
              => inbox' = inbox)]_vars

\* C26, as the specification states it: a leave_queue frame naming patient U
\* and doctor D sets the active entry of U with D to Cancelled and puts a
\* refresh into the channel of every connection of D's group; when U has no
\* active entry with D, it changes no entry and sends nothing.
C26_LeaveQueueRefreshesNamedDoctor ==
    [][\A s \in Sessions, u \in ClientUuids, d \in Doctors :
          (sess[s].open /\ sess[s].pc = "idle" /\ ReceiveLeaveQueue(s, u, d))
          => IF ActiveOf(d, u) # {}
             THEN /\ \A i \in ActiveOf(d, u) : entries'[i].status = "Cancelled"
                  /\ \A t \in Group(sess, d) : inbox'[t] > 0
             ELSE entries' = entries /\ inbox' = inbox]_vars

\* C27, as the specification states it: a command on a connection of doctor
\* D's route (here add_patient, leave_queue, whiteboard_toggle), whatever
\* its fields carry, creates entries of D only and leaves every entry of
\* another doctor stored, with its status.
C27_CommandsStayWithinDoctor ==
    [][\A s \in Sessions :
          (/\ sess[s].open
           /\ \/ AddCreate(s)
              \/ \E u \in ClientUuids, d \in Doctors : ReceiveLeaveQueue(s, u, d)
              \/ \E u \in ClientUuids, b \in BOOLEAN : ReceiveWhiteboardToggle(s, u, b))
          => /\ \A i \in Ids :
                   entries[i].doctor # sess[s].doctor_id
                   => /\ i \in DOMAIN entries'
                      /\ entries'[i].status = entries[i].status
             /\ \A i \in (DOMAIN entries') \ Ids :
                   entries'[i].doctor = sess[s].doctor_id]_vars

C30_ToggleAndTransitionKeepBoth ==
    [][/\ \A s \in Sessions :
             (sess[s].pc = "toggle_save" /\ ToggleSave(s))
             => \A i \in Ids : /\ i \in DOMAIN entries'
                               /\ entries'[i].status = entries[i].status
       /\ (held["hook"] # NoHold /\ HookSave)
          => \A i \in Ids : /\ i \in DOMAIN entries'
                            /\ entries'[i].whiteboard_active = entries[i].whiteboard_active
       /\ \A s \in Sessions :
             (sess[s].pc = "disconnect_save" /\ DisconnectSave(s))
             => \A i \in Ids :
                   /\ i \in DOMAIN entries'
                   /\ entries'[i].whiteboard_active = entries[i].whiteboard_active]_vars

\* C29, as the specification states it: the disconnect of a connection that
\* carries no patient uuid changes no entry and sends nothing; and a
\* connection that carries the uuid of a patient it joined as carries it
\* until it closes, whatever frames it receives.
C29_AssociationKept ==
    [][\A s \in Sessions :
          /\ (sess[s].open /\ sess[s].patient_uuid = NoUuid /\ Disconnect(s))
             => /\ entries' = entries
                /\ \A t \in Sessions \ {s} : inbox'[t] = inbox[t]
          /\ (sess[s].open /\ sess[s].patient_uuid \in ClientUuids /\ sess'[s].open)
             => sess'[s].patient_uuid = sess[s].patient_uuid]_vars

\* C31, as amended.  An add_patient frame on the route of a doctor that does
\* not exist, or with a malformed patient uuid, or with a name alone that
\* several Patients have, creates and changes no Patient and no entry and ends
\* there, with the refresh sent to the connection's group; the connection
\* carries the uuid of the frame afterwards (none for a name alone).  The
\* disconnect of a connection in that condition (the doctor of its route does
\* not exist, or it carries a malformed uuid or none) changes no entry and
\* sends nothing.
C31_FailedJoinChangesNoStore ==
    [][\A s \in Sessions :
          /\ \A n \in Names, u \in ClientUuids \cup {BadUuid, NoUuid} :
                (/\ sess[s].open /\ sess[s].pc = "idle"
                 /\ \/ sess[s].doctor_id \notin Doctors
                    \/ u = BadUuid
                    \/ u = NoUuid /\ Cardinality({p \in AllUuids : patients[p] = n}) > 1
                 /\ ReceiveAddPatient(s, n, u))
                => /\ patients' = patients
                   /\ entries' = entries
                   /\ nextId' = nextId
                   /\ sess'[s] = [sess[s] EXCEPT !.patient_uuid = u]
                   /\ \A t \in Group(sess, sess[s].doctor_id) : inbox'[t] > 0
          /\ (/\ sess[s].open
              /\ \/ sess[s].doctor_id \notin Doctors
                 \/ sess[s].patient_uuid \in {BadUuid, NoUuid}
              /\ Disconnect(s))
             => /\ entries' = entries
                /\ patients' = patients
                /\ \A t \in Sessions \ {s} : inbox'[t] = inbox[t]]_vars

\* After an add_patient frame with a malformed uuid on a connection of doctor
\* 1's route: the connection carries that uuid and holds the refresh, as does
\* the other connection of the group, and the store holds an entry of another
\* patient only.
C31_Witness ==
    \E s \in Sessions, t \in Sessions :
        /\ s # t
        /\ sess[s].open /\ sess[s].pc = "idle" /\ sess[s].doctor_id = 1
        /\ sess[s].patient_uuid = BadUuid
        /\ inbox[s] > 0
        /\ sess[t].open /\ sess[t].doctor_id = 1 /\ inbox[t] > 0
        /\ Cardinality(Ids) = 1

\* C31, as the specification states it: after an add_patient frame that
\* fails, no Patient and no entry is created or changed and the connection
\* carries no patient uuid.
C31_FailedJoinRecordsNothing ==
    [][\A s \in Sessions, n \in Names, u \in ClientUuids \cup {BadUuid, NoUuid} :
          (/\ sess[s].open /\ sess[s].pc = "idle"
           /\ \/ sess[s].doctor_id \notin Doctors
              \/ u = BadUuid
              \/ u = NoUuid /\ Cardinality({p \in AllUuids : patients[p] = n}) > 1
           /\ ReceiveAddPatient(s, n, u))
          => /\ patients' = patients
             /\ entries' = entries
             /\ sess'[s].patient_uuid = NoUuid]_vars
=============================================================================
